---------------------------- MODULE Spec2Model ----------------------------
(***************************************************************************)
(* Model of the DiffuseShader component (src/unnamed/part_000): the live   *)
(* WebGL canvas, its animation-frame loop and the high-resolution export   *)
(* compositor getCanvasDataURL.                                            *)
(*                                                                         *)
(* Numbers that the code treats as JavaScript numbers and that may be      *)
(* fractional (scaleFactor, blurRadius, devicePixelRatio) are exact        *)
(* rationals <<n, d>> with d > 0; the values used are dyadic, so the       *)
(* double-precision arithmetic of the code is exact on them.               *)
(* Every handler runs to completion (JavaScript is single-threaded), so a  *)
(* synchronous handler is one action; an async handler (handleDownload,    *)
(* handleDownloadClick, handleGenerate) is one action per stretch of code  *)
(* between two awaits.                                                     *)
(*                                                                         *)
(* The second half of the module models the application around the         *)
(* component: App (src/unnamed/part_001), the ControlPanel                 *)
(* (src/components/ControlPanel.tsx) and the content service               *)
(* generateCreativeContent, of which the repository holds two              *)
(* implementations (src/unnamed/part_001 and src/services/gemini.ts).      *)
(***************************************************************************)
EXTENDS Integers, Sequences, FiniteSets, TLC

\* ---------------------------------------------------------------- bounds
\* clientWidth / clientHeight of the canvas range over 0..MaxClient
MaxClient == 1
\* number of animation frames requested in a behaviour
MaxFrames == 2
\* clientWidth / clientHeight of the canvas whose exports keep their buffers
MaxCaptureClient == 2
\* handleDownload calls that may be in progress at once
MaxExports == 2
\* length of the assistant's raw response, in tokens
MaxRawLen == 4

\* ------------------------------------------------------- program constants
\* width/height of a <canvas> created without width/height attributes
DefaultCanvasWidth == 300
DefaultCanvasHeight == 150
\* bytes per RGBA pixel (targetWidth * targetHeight * 4)
BytesPerPixel == 4
\* pad = ceil(scaledBlur * 3)
SigmaFactor == 3
\* colors: [...] of App's initial config; parsed.colors.length !== 5
PaletteSize == 5
\* blur: 40 of App's initial config
DefaultBlur == 40
\* getCanvasDataURL(2, config.blur) in handleDownload
ExportScale == 2

\* ------------------------------------------------------------- input sets
\* scaleFactor arguments of getCanvasDataURL (contract: >= 1)
ScaleFactors == { <<1, 1>>, <<3, 2>>, <<2, 1>> }
\* blurRadius arguments of getCanvasDataURL (contract: >= 0)
BlurRadii == { <<0, 1>>, <<1, 1>> }
\* the arguments of the padding table: blurRadius 0, 1, 40, 100 and
\* scaleFactor 1, 2, 4
PadBlurRadii == { <<0, 1>>, <<1, 1>>, <<40, 1>>, <<100, 1>> }
PadScaleFactors == { <<1, 1>>, <<2, 1>>, <<4, 1>> }
\* window.devicePixelRatio; <<0, 1>> stands for a missing/zero value
PixelRatios == { <<0, 1>>, <<3, 2>> }
\* the three 2D contexts getCanvasDataURL asks for
Stages == { "temp", "clamped", "final" }

\* ------------------------------------------------------------- arithmetic
RatMul(a, b) == << a[1] * b[1], a[2] * b[2] >>
RatInt(n) == << n, 1 >>
RatPos(a) == a[1] > 0
RatEq(a, b) == a[1] * b[2] = b[1] * a[2]
\* Math.floor on a non-negative rational
Floor(a) == a[1] \div a[2]
\* Math.ceil on a non-negative rational
Ceil(a) == (a[1] + a[2] - 1) \div a[2]

VARIABLES
  phase,       \* "new" (rendered, effects not run), "mounted", "unmounted"
  canvasRef,   \* canvasRef.current is the canvas element (not null)
  glRef,       \* glRef.current is a WebGL context (not null)
  programRef,  \* programRef.current is a linked program (not null)
  canvas,      \* the canvas element's width and height attributes
  layout,      \* its clientWidth, clientHeight and window.devicePixelRatio
  timeRef,     \* timeRef.current, in units of 0.001
  requestRef,  \* requestRef.current: the last animation-frame handle
  rafPending,  \* handles of the animation-frame callbacks still queued
  propsRef,    \* propsRef.current
  lastCall,    \* history: what the handler that ran last did and returned
  keepBuffers, \* whether that history keeps an invocation's pixel buffers
  config,        \* App: the CoverConfig state (title, subtitle, colors, blur)
  snapshotUrl,   \* App: the snapshot overlay state
  lang,          \* App: the interface language, 'en' or 'zh'
  mood,          \* ControlPanel: the theme typed by the user
  isGenerating,  \* ControlPanel
  isDownloading, \* ControlPanel
  clickTimers,   \* handleDownloadClick calls waiting for their 100 ms timer
  downloads,     \* the handleDownload calls: position and locals of each
  generations,   \* handleGenerate calls awaiting generateCreativeContent
  service        \* which implementation '../services/gemini' resolves to

\* the state of App and ControlPanel
appVars == << config, snapshotUrl, lang, mood, isGenerating, isDownloading,
              clickTimers, downloads, generations, service >>

vars == << phase, canvasRef, glRef, programRef, canvas, layout, timeRef,
           requestRef, rafPending, propsRef, lastCall, keepBuffers, appVars >>


\* ------------------------------------------------------------ the renderer
\* The props the parent passes: the palette (standing for colors, grain and
\* scale, which only renderFrame reads) and the speed in tenths (slider step).
Props == { [ colors |-> "p1", speed |-> 0 ], [ colors |-> "p2", speed |-> 5 ] }

\* What renderFrame draws: the viewport/u_resolution, u_time and the uniforms
\* read from propsRef.current at the time of the call.
renderFrame(width, height, time) ==
  [ width |-> width, height |-> height, time |-> time,
    colors |-> propsRef.colors ]

\* history when the last step was not a call into the component's code paths
\* modelled with a result (mount, unmount, a props or layout change)
NoCall == [ op |-> "none" ]

\* requestAnimationFrame: a fresh handle, the callback queued
NextHandle == requestRef + 1

\* ------------------------------------------- the application's state
\* useState initial values of App (part_001:8-21) and ControlPanel
\* (ControlPanel.tsx:67-69).
DefaultColors == << "#FF5733", "#C70039", "#900C3F", "#581845", "#FFC300" >>

\* speed and scale are in slider steps of 0.1, grain in steps of 0.01
DefaultConfig ==
  [ title |-> "The Art of Diffusion.",
    subtitle |-> "Exploring the boundaries",
    colors |-> DefaultColors,
    speed |-> 5,
    grain |-> 15,
    blur |-> DefaultBlur,
    scale |-> 10,
    fontFamily |-> "Inter" ]

\* snapshotUrl = null
NoSnapshot == [ kind |-> "null" ]

\* a handleDownload call that has not started
IdleDownload == [ pc |-> "idle", result |-> "none" ]

\* the implementations of generateCreativeContent in the repository
Services == { "grsai", "genai" }

AppInitWith(services) ==
  /\ config = DefaultConfig
  /\ snapshotUrl = NoSnapshot
  /\ lang = "en"
  /\ mood = ""
  /\ isGenerating = FALSE
  /\ isDownloading = FALSE
  /\ clickTimers = {}
  /\ downloads = [ e \in 1..MaxExports |-> IdleDownload ]
  /\ generations = {}
  /\ service \in services

\* the build that vite.config.ts configures (GRSAI_API_KEY)
AppInit == AppInitWith({ "grsai" })

\* ----------------------------------------------------------------- Init
\* The component has been rendered once; refs hold their initial values and
\* no effect has run yet.
Init ==
  /\ phase = "new"
  /\ canvasRef = FALSE
  /\ glRef = FALSE
  /\ programRef = FALSE
  /\ canvas = [ width |-> DefaultCanvasWidth, height |-> DefaultCanvasHeight ]
  /\ layout \in [ clientWidth : 0..MaxClient, clientHeight : 0..MaxClient,
                  dpr : PixelRatios ]
  /\ timeRef = 0
  /\ requestRef = 0
  /\ rafPending = {}
  /\ propsRef \in Props
  /\ lastCall = NoCall
  /\ keepBuffers = FALSE
  /\ AppInit

\* Commit of the first render: the canvas ref is attached, then the mount
\* effects run in order: WebGL set-up (which may stop early at any of its
\* returns) and the start of the animation loop.
Mount ==
  /\ phase = "new"
  /\ \E setup \in { "noContext", "noProgram", "ok" } :
       /\ glRef' = (setup # "noContext")
       /\ programRef' = (setup = "ok")
  /\ phase' = "mounted"
  /\ canvasRef' = TRUE
  /\ requestRef' = NextHandle
  /\ rafPending' = rafPending \cup { NextHandle }
  /\ lastCall' = NoCall
  /\ UNCHANGED << canvas, layout, timeRef, propsRef, keepBuffers >>
  /\ UNCHANGED appVars

\* The props effect: a re-render with new props copies them to propsRef.
SetProps ==
  /\ phase = "mounted"
  /\ \E p \in Props : p # propsRef /\ propsRef' = p
  /\ lastCall' = NoCall
  /\ UNCHANGED << phase, canvasRef, glRef, programRef, canvas, layout, timeRef,
                  requestRef, rafPending, keepBuffers >>
  /\ UNCHANGED appVars

\* The environment: the element is laid out at another size (window resize,
\* an ancestor hidden with display:none giving 0 x 0) or the device pixel
\* ratio changes.
Relayout ==
  /\ phase = "mounted"
  /\ \E l \in [ clientWidth : 0..MaxClient, clientHeight : 0..MaxClient,
                dpr : PixelRatios ] : l # layout /\ layout' = l
  /\ lastCall' = NoCall
  /\ UNCHANGED << phase, canvasRef, glRef, programRef, canvas, timeRef,
                  requestRef, rafPending, propsRef, keepBuffers >>
  /\ UNCHANGED appVars

\* const dpr = window.devicePixelRatio || 1
EffectiveDpr(dpr) == IF RatPos(dpr) THEN dpr ELSE RatInt(1)

DisplaySize(client, dpr) == Floor(RatMul(RatInt(client), EffectiveDpr(dpr)))

\* (variant: the accumulator advances by one step whatever the speed)
AdvanceTimeUnscaled(t, speed) == t + 1

\* timeRef.current += 0.01 * propsRef.current.speed, with the speed in tenths
\* and the time in thousandths
AdvanceTime(t, speed) == t + speed

\* (variant: cancelling leaves the request queued)
CancelNothing(pending, id) == pending

\* cancelAnimationFrame(id): the callback queued under id will not run
CancelAnimationFrame(pending, id) == pending \ { id }

\* One run of the animation-frame callback `animate`.
Animate ==
  /\ requestRef < MaxFrames
  /\ \E id \in rafPending :
       LET displayWidth == DisplaySize(layout.clientWidth, layout.dpr)
           displayHeight == DisplaySize(layout.clientHeight, layout.dpr)
           live == glRef /\ programRef /\ canvasRef
           time == AdvanceTime(timeRef, propsRef.speed)
       IN  /\ IF live
                THEN /\ canvas' = IF canvas.width # displayWidth \/ canvas.height # displayHeight
                                    THEN [ width |-> displayWidth, height |-> displayHeight ]
                                    ELSE canvas
                     /\ timeRef' = time
                ELSE UNCHANGED << canvas, timeRef >>
           /\ requestRef' = NextHandle
           /\ rafPending' = (rafPending \ { id }) \cup { NextHandle }
                    /\ lastCall' = [ op |-> "animate", live |-> live,
                            seenWidth |-> canvas.width,
                            seenHeight |-> canvas.height,
                            renders |-> IF live
                                          THEN << renderFrame(displayWidth,
                                                              displayHeight, time) >>
                                          ELSE << >> ]
  /\ UNCHANGED << phase, canvasRef, glRef, programRef, layout, propsRef,
                  keepBuffers >>
  /\ UNCHANGED appVars

\* Unmount: the cleanups of the two mount effects run and React detaches the
\* canvas ref.  The WebGL effect returned a cleanup only if set-up completed;
\* it and the loop's cleanup both cancel the handle in requestRef.
Unmount ==
  /\ phase = "mounted"
  /\ phase' = "unmounted"
  /\ canvasRef' = FALSE
  /\ rafPending' = CancelAnimationFrame(rafPending, requestRef)
  /\ lastCall' = NoCall
  /\ UNCHANGED << glRef, programRef, canvas, layout, timeRef, requestRef,
                  propsRef, keepBuffers >>
  /\ UNCHANGED appVars


\* ------------------------------------------------- the export compositor
\* A 2D surface: its size, its pixels (top-left origin) and the filter that
\* was set when it was drawn.  A pixel is the tuple of its four bytes.
NoSurface == [ width |-> 0, height |-> 0, px |-> << >>, filter |-> << 0, 1 >> ]

Coords(width, height) == (0..(width - 1)) \X (0..(height - 1))

\* document.createElement('canvas') with width/height set: transparent black
CreateCanvas(width, height) ==
  [ width |-> width, height |-> height,
    px |-> [ p \in Coords(width, height) |-> << 0, 0, 0, 0 >> ],
    filter |-> << 0, 1 >> ]

\* The local state of one invocation of getCanvasDataURL.
Invocation ==
  [ canvas |-> canvas, steps |-> << >>, renders |-> << >>,
    outcome |-> "running", image |-> NoSurface, from |-> "none",
    pixels |-> << >>, flippedPixels |-> << >>, rowsWritten |-> << >>,
    tempCanvas |-> NoSurface, clampedCanvas |-> NoSurface,
    finalCanvas |-> NoSurface, blurBranch |-> FALSE,
    scaledBlur |-> << 0, 1 >>, pad |-> 0, contexts |-> << >> ]

\* history: the step just executed and the live canvas's size after it
Log(m, op) ==
  [ m EXCEPT !.steps = Append(@, [ op |-> op, width |-> m.canvas.width,
                                   height |-> m.canvas.height ]) ]

\* (variant: the check forgets the program)
UnavailableIgnoringProgram(gl, program, cnv) == ~gl \/ ~cnv

\* if (!gl || !program || !canvas) return null
Unavailable(gl, program, cnv) == ~gl \/ ~program \/ ~cnv

\* Math.floor(canvas.clientWidth * scaleFactor)
TargetSize(client, scaleFactor) == Floor(RatMul(RatInt(client), scaleFactor))

\* canvas.width = w; canvas.height = h
ResizeLive(m, op, w, h) ==
  Log([ m EXCEPT !.canvas = [ width |-> w, height |-> h ] ], op)

\* renderFrame(gl, program, w, h, timeRef.current)
RenderLive(m, w, h) ==
  Log([ m EXCEPT !.renders = Append(@, renderFrame(w, h, timeRef)) ], "render")

\* gl.readPixels(0, 0, w, h, RGBA, UNSIGNED_BYTE, pixels): the bytes of the
\* drawing buffer, bottom row first; byte k of the frame is identified by k.
ReadPixels(width, height) ==
  [ k \in 1..(width * height * BytesPerPixel) |-> k ]

\* new Uint8Array(n): n zero bytes
ZeroBytes(n) == [ k \in 1..n |-> 0 ]

SrcRow(i, targetWidth) == i * targetWidth * BytesPerPixel

\* (variant: the destination row is the source row, nothing is flipped)
DstRowUnflipped(i, targetWidth, targetHeight) == i * targetWidth * BytesPerPixel

DstRow(i, targetWidth, targetHeight) ==
  (targetHeight - i - 1) * targetWidth * BytesPerPixel

\* flippedPixels.set(pixels.subarray(srcRow, srcRow + n), dstRow); offsets
\* are 0-based as in the code, the sequences 1-based
SetSubarray(dst, src, srcRow, n, dstRow) ==
  [ k \in DOMAIN dst |->
      IF k - 1 >= dstRow /\ k - 1 < dstRow + n
        THEN src[srcRow + (k - 1 - dstRow) + 1]
        ELSE dst[k] ]

\* the loop `for (let i = 0; i < targetHeight; i++)`, from iteration i on;
\* acc.buf is flippedPixels, acc.rows the destination offsets written so far
RECURSIVE FlipRows(_, _, _, _, _)
FlipRows(i, pixels, acc, targetWidth, targetHeight) ==
  IF i < targetHeight
    THEN FlipRows(i + 1, pixels,
           [ buf |-> SetSubarray(acc.buf, pixels, SrcRow(i, targetWidth),
                                 targetWidth * BytesPerPixel,
                                 DstRow(i, targetWidth, targetHeight)),
             rows |-> Append(acc.rows, DstRow(i, targetWidth, targetHeight)) ],
           targetWidth, targetHeight)
    ELSE acc

FlipY(pixels, targetWidth, targetHeight) ==
  FlipRows(0, pixels,
           [ buf |-> ZeroBytes(targetWidth * targetHeight * BytesPerPixel),
             rows |-> << >> ],
           targetWidth, targetHeight)

\* new ImageData(new Uint8ClampedArray(data), w, h) throws when the data is
\* empty (w * h = 0)
ImageDataThrows(width, height) == width * height * BytesPerPixel = 0

\* ctx.putImageData(imageData, 0, 0) on a w x h canvas
PutImageData(data, width, height) ==
  [ p \in Coords(width, height) |->
      LET base == (p[2] * width + p[1]) * BytesPerPixel
      IN  << data[base + 1], data[base + 2], data[base + 3], data[base + 4] >> ]

\* steps 1-4: resize the live canvas, render, read back, flip
Capture(m, targetWidth, targetHeight) ==
  LET m1 == ResizeLive(m, "resize", targetWidth, targetHeight)
      m2 == RenderLive(m1, targetWidth, targetHeight)
      pixels == ReadPixels(targetWidth, targetHeight)
      m3 == Log([ m2 EXCEPT !.pixels = pixels ], "readPixels")
      flipped == FlipY(pixels, targetWidth, targetHeight)
  IN  Log([ m3 EXCEPT !.flippedPixels = flipped.buf,
                      !.rowsWritten = flipped.rows ], "flip")

\* canvas.getContext('2d') on the surface of a stage; ok = it is not null
GetContext(m, stage, ok) ==
  Log([ m EXCEPT !.contexts = Append(@, << stage, ok >>) ], "getContext")

\* step 5, first half: the temp canvas and its context
CreateTemp(m, targetWidth, targetHeight, ok) ==
  GetContext(Log([ m EXCEPT !.tempCanvas = CreateCanvas(targetWidth, targetHeight) ],
                 "createTemp"), "temp", ok)

\* step 5, second half: imageData and putImageData
PutTemp(m, targetWidth, targetHeight) ==
  Log([ m EXCEPT !.tempCanvas.px =
                    PutImageData(m.flippedPixels, targetWidth, targetHeight) ],
      "putImageData")

\* canvas.width = originalWidth; canvas.height = originalHeight; renderFrame
RestoreLive(m, originalWidth, originalHeight) ==
  RenderLive(ResizeLive(m, "restore", originalWidth, originalHeight),
             originalWidth, originalHeight)

\* return null
ReturnNull(m) == Log([ m EXCEPT !.outcome = "null" ], "return")

\* return surface.toDataURL('image/png')
ReturnPng(m, from) ==
  Log([ m EXCEPT !.outcome = "png", !.from = from,
                 !.image = IF from = "final" THEN m.finalCanvas ELSE m.tempCanvas ],
      "toDataURL")

\* an exception leaves the function where it is thrown
Throw(m) == Log([ m EXCEPT !.outcome = "throw" ], "throw")


\* (variant: the test is blurRadius >= 0)
BlurRequestedInclusive(blurRadius) == blurRadius[1] >= 0

\* if (blurRadius > 0)
BlurRequested(blurRadius) == RatPos(blurRadius)

\* const scaledBlur = blurRadius * scaleFactor
ScaledBlur(blurRadius, scaleFactor) == RatMul(blurRadius, scaleFactor)

\* (variant: two standard deviations of padding instead of three)
PadTwoSigma(scaledBlur) == Ceil(RatMul(scaledBlur, RatInt(2)))

\* const pad = Math.ceil(scaledBlur * 3)
Pad(scaledBlur) == Ceil(RatMul(scaledBlur, RatInt(SigmaFactor)))

\* clampedCanvas.width = targetWidth + (pad * 2) (and height alike)
ClampedSize(target, pad) == target + (pad * 2)

\* (variant: the final canvas keeps the padded size)
FinalSizePadded(target, pad) == target + (pad * 2)

\* finalCanvas.width = targetWidth (and height alike)
FinalSize(target, pad) == target

Rect(sx, sy, sw, sh, dx, dy, dw, dh) ==
  [ sx |-> sx, sy |-> sy, sw |-> sw, sh |-> sh,
    dx |-> dx, dy |-> dy, dw |-> dw, dh |-> dh ]

InDest(p, r) ==
  /\ p[1] >= r.dx /\ p[1] < r.dx + r.dw
  /\ p[2] >= r.dy /\ p[2] < r.dy + r.dh

\* ctx.drawImage(src, sx, sy, sw, sh, dx, dy, dw, dh) with
\* imageSmoothingEnabled = false: every destination pixel takes the source
\* pixel under its centre (nearest neighbour); opaque sources overwrite.
DrawImage(dstPx, srcPx, r) ==
  [ p \in DOMAIN dstPx |->
      IF InDest(p, r)
        THEN srcPx[ << r.sx + (((2 * (p[1] - r.dx) + 1) * r.sw) \div (2 * r.dw)),
                       r.sy + (((2 * (p[2] - r.dy) + 1) * r.sh) \div (2 * r.dh)) >> ]
        ELSE dstPx[p] ]

\* (variant: the four corner copies are missing)
ClampOpsWithoutCorners(targetWidth, targetHeight, pad) ==
  << Rect(0, 0, targetWidth, targetHeight, pad, pad, targetWidth, targetHeight),
     Rect(0, 0, 1, targetHeight, 0, pad, pad, targetHeight),
     Rect(targetWidth - 1, 0, 1, targetHeight, targetWidth + pad, pad, pad, targetHeight),
     Rect(0, 0, targetWidth, 1, pad, 0, targetWidth, pad),
     Rect(0, targetHeight - 1, targetWidth, 1, pad, targetHeight + pad, targetWidth, pad) >>

\* the nine drawImage calls that assemble the clamped canvas, in order:
\* centre, left, right, top, bottom, then the four corners
ClampOps(targetWidth, targetHeight, pad) ==
  << Rect(0, 0, targetWidth, targetHeight, pad, pad, targetWidth, targetHeight),
     Rect(0, 0, 1, targetHeight, 0, pad, pad, targetHeight),
     Rect(targetWidth - 1, 0, 1, targetHeight, targetWidth + pad, pad, pad, targetHeight),
     Rect(0, 0, targetWidth, 1, pad, 0, targetWidth, pad),
     Rect(0, targetHeight - 1, targetWidth, 1, pad, targetHeight + pad, targetWidth, pad),
     Rect(0, 0, 1, 1, 0, 0, pad, pad),
     Rect(targetWidth - 1, 0, 1, 1, targetWidth + pad, 0, pad, pad),
     Rect(0, targetHeight - 1, 1, 1, 0, targetHeight + pad, pad, pad),
     Rect(targetWidth - 1, targetHeight - 1, 1, 1,
          targetWidth + pad, targetHeight + pad, pad, pad) >>

RECURSIVE DrawAll(_, _, _, _)
DrawAll(dstPx, srcPx, ops, i) ==
  IF i > Len(ops) THEN dstPx
  ELSE DrawAll(DrawImage(dstPx, srcPx, ops[i]), srcPx, ops, i + 1)

\* const clampedCanvas = document.createElement('canvas'), sized, and its context
CreateClamped(m, targetWidth, targetHeight, pad, ok) ==
  GetContext(Log([ m EXCEPT !.clampedCanvas =
                               CreateCanvas(ClampedSize(targetWidth, pad),
                                            ClampedSize(targetHeight, pad)) ],
                 "createClamped"), "clamped", ok)

\* A. "Clamp-to-Edge" simulation
ClampToEdge(m, targetWidth, targetHeight, pad) ==
  Log([ m EXCEPT !.clampedCanvas.px =
                    DrawAll(m.clampedCanvas.px, m.tempCanvas.px,
                            ClampOps(targetWidth, targetHeight, pad), 1) ],
      "clampToEdge")

\* const finalCanvas = document.createElement('canvas'), sized, and its context
CreateFinal(m, targetWidth, targetHeight, pad, ok) ==
  GetContext(Log([ m EXCEPT !.finalCanvas =
                               CreateCanvas(FinalSize(targetWidth, pad),
                                            FinalSize(targetHeight, pad)) ],
                 "createFinal"), "final", ok)

\* fCtx.filter = `blur(${scaledBlur}px)`; fCtx.drawImage(clampedCanvas, -pad, -pad):
\* final pixel p is the blur of that radius centred on clamped pixel p + pad
\* (the pixel holds the bytes under the kernel's centre; the radius is the
\* surface's filter); a pixel the shifted image does not cover stays as it was
BlurDraw(m, scaledBlur, pad) ==
  Log([ m EXCEPT !.finalCanvas.filter = scaledBlur,
                 !.finalCanvas.px =
                    [ p \in DOMAIN m.finalCanvas.px |->
                        IF << p[1] + pad, p[2] + pad >> \in DOMAIN m.clampedCanvas.px
                          THEN m.clampedCanvas.px[ << p[1] + pad, p[2] + pad >> ]
                          ELSE m.finalCanvas.px[p] ] ],
      "blurDraw")

\* 6. Apply Blur Processing if requested, then encode
PostProcess(m, targetWidth, targetHeight, scaleFactor, blurRadius, ctxOk) ==
  IF BlurRequested(blurRadius)
    THEN LET scaledBlur == ScaledBlur(blurRadius, scaleFactor)
             pad == Pad(scaledBlur)
             m1 == CreateClamped([ m EXCEPT !.blurBranch = TRUE,
                                            !.scaledBlur = scaledBlur,
                                            !.pad = pad ],
                                 targetWidth, targetHeight, pad, ctxOk["clamped"])
         IN  IF ctxOk["clamped"]
               THEN LET m2 == ClampToEdge(m1, targetWidth, targetHeight, pad)
                        m3 == CreateFinal(m2, targetWidth, targetHeight, pad,
                                          ctxOk["final"])
                    IN  IF ctxOk["final"]
                          THEN ReturnPng(BlurDraw(m3, scaledBlur, pad), "final")
                          ELSE ReturnPng(m3, "temp")
               ELSE ReturnPng(m1, "temp")
    ELSE ReturnPng(m, "temp")

\* (variant: the live canvas is restored only after the blur processing)
FinishThenRestore(m, a) ==
  RestoreLive(PostProcess(m, a.targetWidth, a.targetHeight, a.scaleFactor,
                          a.blurRadius, a.ctxOk),
              a.originalWidth, a.originalHeight)

\* from "Restore original WebGL canvas size immediately" to the return; a
\* holds the invocation's arguments and locals
RestoreAndFinish(m, a) ==
  PostProcess(RestoreLive(m, a.originalWidth, a.originalHeight),
              a.targetWidth, a.targetHeight, a.scaleFactor, a.blurRadius, a.ctxOk)

\* getCanvasDataURL(scaleFactor, blurRadius); ctxOk says, for each stage,
\* whether getContext('2d') would return a context there
getCanvasDataURL(scaleFactor, blurRadius, ctxOk) ==
  IF Unavailable(glRef, programRef, canvasRef)
    THEN ReturnNull(Invocation)
    ELSE LET originalWidth == canvas.width
             originalHeight == canvas.height
             targetWidth == TargetSize(layout.clientWidth, scaleFactor)
             targetHeight == TargetSize(layout.clientHeight, scaleFactor)
             m1 == CreateTemp(Capture(Invocation, targetWidth, targetHeight),
                              targetWidth, targetHeight, ctxOk["temp"])
         IN  IF ~ctxOk["temp"]
               THEN ReturnNull(RestoreLive(m1, originalWidth, originalHeight))
               ELSE IF ImageDataThrows(targetWidth, targetHeight)
                 THEN Throw(m1)
                 ELSE RestoreAndFinish(PutTemp(m1, targetWidth, targetHeight),
                        [ originalWidth |-> originalWidth,
                          originalHeight |-> originalHeight,
                          targetWidth |-> targetWidth,
                          targetHeight |-> targetHeight,
                          scaleFactor |-> scaleFactor,
                          blurRadius |-> blurRadius,
                          ctxOk |-> ctxOk ])

\* What getContext('2d') answers at the three stages.  A stage is asked only
\* if the stages before it answered, so the first refusal decides the run:
\* no refusal, or a first refusal at one of the stages.
CtxChoices ==
  { ok \in [ Stages -> BOOLEAN ] : Cardinality({ st \in Stages : ~ok[st] }) <= 1 }

\* the invocation without its pixel buffers
Summary(m) ==
  [ m EXCEPT !.pixels = << >>, !.flippedPixels = << >>,
             !.image = [ @ EXCEPT !.px = << >> ],
             !.tempCanvas = [ @ EXCEPT !.px = << >> ],
             !.clampedCanvas = [ @ EXCEPT !.px = << >> ],
             !.finalCanvas = [ @ EXCEPT !.px = << >> ] ]

\* A caller invokes the handle's getCanvasDataURL with arguments from the
\* given sets.  The function is synchronous: nothing else runs between its
\* first and last statement.
Invoke(scaleFactors, blurRadii) ==
  /\ \E scaleFactor \in scaleFactors, blurRadius \in blurRadii,
        ctxOk \in CtxChoices :
       LET m == getCanvasDataURL(scaleFactor, blurRadius, ctxOk)
       IN  /\ canvas' = m.canvas
           /\ lastCall' = [ op |-> "export",
                            scaleFactor |-> scaleFactor,
                            blurRadius |-> blurRadius,
                            refs |-> [ gl |-> glRef, program |-> programRef,
                                       canvas |-> canvasRef ],
                            originalWidth |-> canvas.width,
                            originalHeight |-> canvas.height,
                            clientWidth |-> layout.clientWidth,
                            clientHeight |-> layout.clientHeight,
                            time |-> timeRef,
                            m |-> IF keepBuffers THEN m ELSE Summary(m) ]
  /\ UNCHANGED << phase, canvasRef, glRef, programRef, layout, timeRef,
                  requestRef, rafPending, propsRef, keepBuffers >>
  /\ UNCHANGED appVars

GetCanvasDataURL == Invoke(ScaleFactors, BlurRadii)

Next ==
  \/ Mount
  \/ SetProps
  \/ Relayout
  \/ Animate
  \/ GetCanvasDataURL
  \/ Unmount

Spec == Init /\ [][Next]_vars

\* ------------------------------------------------ exports of a live canvas
\* The component mounted with WebGL set up and one animation frame run: the
\* canvas has the display size of its layout.  From here only exports run.
InitLive(keep) ==
  /\ phase = "mounted"
  /\ canvasRef = TRUE
  /\ glRef = TRUE
  /\ programRef = TRUE
  /\ layout \in [ clientWidth : 0..MaxCaptureClient,
                  clientHeight : 0..MaxCaptureClient, dpr : PixelRatios ]
  /\ canvas = [ width |-> DisplaySize(layout.clientWidth, layout.dpr),
                height |-> DisplaySize(layout.clientHeight, layout.dpr) ]
  /\ propsRef \in Props
  /\ timeRef = propsRef.speed
  /\ requestRef = 2
  /\ rafPending = { 2 }
  /\ lastCall = [ op |-> "animate", live |-> TRUE,
                  seenWidth |-> DefaultCanvasWidth,
                  seenHeight |-> DefaultCanvasHeight,
                  renders |-> << renderFrame(canvas.width, canvas.height, timeRef) >> ]
  /\ keepBuffers = keep
  /\ AppInit

\* exports whose pixel buffers are kept in the history
InitPixels == InitLive(TRUE)

SpecPixels == InitPixels /\ [][GetCanvasDataURL]_vars

\* exports with the blur radii and scale factors of the padding table
InitPad == InitLive(FALSE)

GetCanvasDataURLPad == Invoke(PadScaleFactors, PadBlurRadii)

SpecPad == InitPad /\ [][GetCanvasDataURLPad]_vars


\* ================================================================ claims
\* the last step was an invocation of getCanvasDataURL
IsExport == lastCall.op = "export"

\* that invocation found the WebGL context, the program and the canvas
RanExport ==
  IsExport /\ lastCall.refs.gl /\ lastCall.refs.program /\ lastCall.refs.canvas

\* the answers getContext('2d') gave during that invocation
Refused(stage) ==
  \E i \in 1..Len(lastCall.m.contexts) : lastCall.m.contexts[i] = << stage, FALSE >>

Granted(stage) ==
  \E i \in 1..Len(lastCall.m.contexts) : lastCall.m.contexts[i] = << stage, TRUE >>

\* floor(client * scaleFactor), from the arguments recorded with the call
ExpectedTarget(client, scaleFactor) == (client * scaleFactor[1]) \div scaleFactor[2]

\* the live canvas is as it was before the invocation
LiveRestored ==
  /\ canvas.width = lastCall.originalWidth
  /\ canvas.height = lastCall.originalHeight

\* C1: after every invocation of getCanvasDataURL, however it ends, the live
\* canvas has the width and height it had immediately before the invocation.
C1_RestoredOnEveryExit == IsExport => LiveRestored

\* C2: whenever getCanvasDataURL returns an image, the image is
\* floor(clientWidth * scaleFactor) wide and floor(clientHeight * scaleFactor)
\* high, whatever the blur radius and the padding.
C2_OutputDimensions ==
  (IsExport /\ lastCall.m.outcome = "png") =>
     /\ lastCall.m.image.width =
          ExpectedTarget(lastCall.clientWidth, lastCall.scaleFactor)
     /\ lastCall.m.image.height =
          ExpectedTarget(lastCall.clientHeight, lastCall.scaleFactor)

\* an image came out of the blur path, padded, at a fractional scale factor
C2_Witness ==
  /\ IsExport
  /\ lastCall.m.outcome = "png"
  /\ lastCall.m.from = "final"
  /\ lastCall.m.pad > 0
  /\ lastCall.scaleFactor = << 3, 2 >>
  /\ lastCall.m.image.width > 0

\* C3: if getContext('2d') returns null at any stage (temp, clamped or final
\* canvas), the invocation returns null with the live canvas restored to
\* its original size and rendered again at that size.
C3_NullOnAnyContextFailure ==
  (IsExport /\ \E stage \in Stages : Refused(stage)) =>
     /\ lastCall.m.outcome = "null"
     /\ LiveRestored
     /\ lastCall.m.renders # << >>
     /\ LET last == lastCall.m.renders[Len(lastCall.m.renders)]
        IN  last.width = lastCall.originalWidth /\ last.height = lastCall.originalHeight

\* C4: invoked while the WebGL context, the program or the canvas element is
\* missing, getCanvasDataURL returns null without throwing, issues no render
\* and leaves the canvas size, the time accumulator and the pending
\* animation frame as they were.
C4_UnavailableIsNoOp ==
  [][ (lastCall'.op = "export" /\
         ~(lastCall'.refs.gl /\ lastCall'.refs.program /\ lastCall'.refs.canvas)) =>
        /\ lastCall'.m.outcome = "null"
        /\ lastCall'.m.renders = << >>
        /\ Len(lastCall'.m.steps) = 1
        /\ UNCHANGED << phase, canvasRef, glRef, programRef, canvas, layout,
                        timeRef, requestRef, rafPending, propsRef >> ]_vars

\* getCanvasDataURL was invoked on a mounted component whose shader program
\* failed to build
C4_Witness ==
  /\ IsExport
  /\ ~RanExport
  /\ phase = "mounted"
  /\ glRef
  /\ ~programRef

\* the target size of the recorded invocation
TargetW == ExpectedTarget(lastCall.clientWidth, lastCall.scaleFactor)

TargetH == ExpectedTarget(lastCall.clientHeight, lastCall.scaleFactor)

\* byte c (1..4) of the pixel in column x of row `row` of a w-wide buffer
ByteAt(buf, w, x, row, c) == buf[(row * w + x) * BytesPerPixel + c]

\* C5: with blurRadius = 0 the returned image is the temp surface itself:
\* pixel (x, y) holds the four readback bytes of column x of readback row
\* H-1-y, no padded surface was made and no blur filter was set.
C5_NoBlurIsFlippedReadback ==
  (IsExport /\ lastCall.blurRadius[1] = 0 /\ lastCall.m.outcome = "png") =>
     /\ lastCall.m.from = "temp"
     /\ ~lastCall.m.blurBranch
     /\ lastCall.m.clampedCanvas = NoSurface
     /\ lastCall.m.image.filter[1] = 0
     /\ DOMAIN lastCall.m.image.px = Coords(TargetW, TargetH)
     /\ \A p \in Coords(TargetW, TargetH) : \A c \in 1..BytesPerPixel :
          lastCall.m.image.px[p][c] =
            ByteAt(lastCall.m.pixels, TargetW, p[1], TargetH - 1 - p[2], c)

\* an unblurred export of an image with a middle row
C5_Witness ==
  /\ IsExport
  /\ lastCall.blurRadius[1] = 0
  /\ lastCall.m.outcome = "png"
  /\ TargetH = 3
  /\ TargetW >= 2

\* C6: for a capture W wide and H high, row i of the flipped buffer equals
\* row H-1-i of the readback over the whole scanline of W*4 bytes, the loop
\* writes every destination row exactly once, and flipping the flipped
\* buffer again gives the readback.
C6_VerticalFlip ==
  RanExport =>
     /\ Len(lastCall.m.flippedPixels) = TargetW * TargetH * BytesPerPixel
     /\ \A i \in 0..(TargetH - 1) : \A k \in 1..(TargetW * BytesPerPixel) :
          lastCall.m.flippedPixels[i * TargetW * BytesPerPixel + k] =
            lastCall.m.pixels[(TargetH - 1 - i) * TargetW * BytesPerPixel + k]
     /\ Len(lastCall.m.rowsWritten) = TargetH
     /\ TargetW > 0 =>
          \A row \in 0..(TargetH - 1) :
            Cardinality({ j \in 1..TargetH :
                            lastCall.m.rowsWritten[j] = row * TargetW * BytesPerPixel }) = 1
     /\ FlipY(lastCall.m.flippedPixels, TargetW, TargetH).buf = lastCall.m.pixels

\* a capture with first, middle and last rows was flipped
C6_Witness ==
  /\ RanExport
  /\ TargetH = 3
  /\ TargetW = 3
  /\ lastCall.m.flippedPixels # lastCall.m.pixels

\* the rectangles of a list of drawImage calls
Rects(ops) == { ops[i] : i \in 1..Len(ops) }

Clamp(v, lo, hi) == IF v < lo THEN lo ELSE IF v > hi THEN hi ELSE v

\* C7: when the blur branch assembles the padded surface, it is
\* (W + 2*pad) x (H + 2*pad), each of its pixels (x, y) is the captured pixel
\* at (clamp(x - pad, 0, W-1), clamp(y - pad, 0, H-1)), and every padded pixel
\* lies in exactly one of the nine destination rectangles.
C7_ClampToEdge ==
  (RanExport /\ lastCall.m.blurBranch /\ Granted("clamped")) =>
     /\ lastCall.m.clampedCanvas.width = TargetW + 2 * lastCall.m.pad
     /\ lastCall.m.clampedCanvas.height = TargetH + 2 * lastCall.m.pad
     /\ DOMAIN lastCall.m.clampedCanvas.px =
          Coords(TargetW + 2 * lastCall.m.pad, TargetH + 2 * lastCall.m.pad)
     /\ \A p \in Coords(TargetW + 2 * lastCall.m.pad, TargetH + 2 * lastCall.m.pad) :
          /\ lastCall.m.clampedCanvas.px[p] =
               lastCall.m.tempCanvas.px[ << Clamp(p[1] - lastCall.m.pad, 0, TargetW - 1),
                                            Clamp(p[2] - lastCall.m.pad, 0, TargetH - 1) >> ]
          /\ Cardinality({ r \in Rects(ClampOps(TargetW, TargetH, lastCall.m.pad)) :
                             InDest(p, r) }) = 1

\* a padded surface was assembled around a capture of more than one pixel
C7_Witness ==
  /\ RanExport
  /\ lastCall.m.blurBranch
  /\ Granted("clamped")
  /\ lastCall.m.pad = 5
  /\ TargetW = 3
  /\ TargetH = 1

\* ceil(blurRadius * scaleFactor * 3), from the arguments recorded with the call
ExpectedPad ==
  LET num == lastCall.blurRadius[1] * lastCall.scaleFactor[1] * 3
      den == lastCall.blurRadius[2] * lastCall.scaleFactor[2]
  IN  -((-num) \div den)

\* C8: for blurRadius in {0, 1, 40, 100} and scaleFactor in {1, 2, 4} the
\* padding of the export is ceil(blurRadius * scaleFactor * 3) (none for
\* blurRadius 0, where no padded surface is made), the padded surface is
\* larger than the target by twice that, and the blur filter set on the
\* final surface has radius blurRadius * scaleFactor.
C8_PaddingTable ==
  (RanExport /\ lastCall.m.outcome = "png") =>
     /\ lastCall.blurRadius \in PadBlurRadii
     /\ lastCall.scaleFactor \in PadScaleFactors
     /\ lastCall.m.pad = ExpectedPad
     /\ lastCall.m.blurBranch = (lastCall.blurRadius[1] > 0)
     /\ lastCall.m.blurBranch =>
          /\ lastCall.m.clampedCanvas.width = TargetW + 2 * ExpectedPad
          /\ lastCall.m.clampedCanvas.height = TargetH + 2 * ExpectedPad
     /\ lastCall.m.from = "final" =>
          /\ lastCall.m.image.filter[1] * lastCall.blurRadius[2] * lastCall.scaleFactor[2]
               = lastCall.blurRadius[1] * lastCall.scaleFactor[1] * lastCall.m.image.filter[2]

\* the largest entry of the table: blurRadius 100 at scaleFactor 4
C8_Witness ==
  /\ RanExport
  /\ lastCall.m.outcome = "png"
  /\ lastCall.m.from = "final"
  /\ lastCall.blurRadius = << 100, 1 >>
  /\ lastCall.scaleFactor = << 4, 1 >>
  /\ lastCall.m.pad = 1200

\* the names of the steps of the recorded invocation, in order
StepOps == [ i \in 1..Len(lastCall.m.steps) |-> lastCall.m.steps[i].op ]

PostOps == { "createClamped", "clampToEdge", "createFinal", "blurDraw", "toDataURL" }

\* C9: an invocation that returns an image runs resize-to-target, render,
\* readback, flip, write to the temp surface, restore, re-render in this
\* order before any padding, blur or encode step; in every invocation a
\* padded or final surface is made and a PNG encoded only after the restore,
\* with the live canvas at its original size.
C9_RestoreBeforePostProcessing ==
  IsExport =>
     /\ lastCall.m.outcome = "png" =>
          /\ Len(StepOps) >= 10
          /\ SubSeq(StepOps, 1, 9) =
               << "resize", "render", "readPixels", "flip", "createTemp",
                  "getContext", "putImageData", "restore", "render" >>
          /\ lastCall.m.steps[1].width = TargetW
          /\ lastCall.m.steps[1].height = TargetH
     /\ \A j \in 1..Len(StepOps) :
          StepOps[j] \in PostOps =>
            /\ \E i \in 1..(j - 1) : StepOps[i] = "restore"
            /\ lastCall.m.steps[j].width = lastCall.originalWidth
            /\ lastCall.m.steps[j].height = lastCall.originalHeight

\* a blurred export ran while the target size differed from the live size
C9_Witness ==
  /\ IsExport
  /\ lastCall.m.outcome = "png"
  /\ lastCall.m.from = "final"
  /\ lastCall.originalWidth # TargetW
  /\ \E j \in 1..Len(StepOps) : StepOps[j] = "blurDraw"

\* C10: an export is atomic, so the animation-frame callback that runs after
\* an export finds the canvas at the size it had before that export, never
\* at a size the export left behind.
C10_AnimateNeverSeesExportSize ==
  [][ (lastCall.op = "export" /\ lastCall'.op = "animate") =>
        /\ lastCall'.seenWidth = lastCall.originalWidth
        /\ lastCall'.seenHeight = lastCall.originalHeight ]_vars


\* the two frames an export that ran must draw: the capture frame at the
\* target size and the restore frame at the original size, both at time t
ExportFrames(call, t) ==
  /\ Len(call.m.renders) = 2
  /\ call.m.renders[1].time = t
  /\ call.m.renders[2].time = t
  /\ call.m.renders[1].width = ExpectedTarget(call.clientWidth, call.scaleFactor)
  /\ call.m.renders[1].height = ExpectedTarget(call.clientHeight, call.scaleFactor)
  /\ call.m.renders[2].width = call.originalWidth
  /\ call.m.renders[2].height = call.originalHeight

\* an invocation that found the context, the program and the canvas
Ran(call) == call.refs.gl /\ call.refs.program /\ call.refs.canvas

\* C11: an export leaves the time accumulator, the animation-frame handle and
\* the queued animation-frame callback as they were (the loop is neither
\* cancelled nor suspended), and an export that ran draws exactly the capture
\* frame and the restore frame, both at the current animation time.
C11_ExportKeepsAnimation ==
  [][ lastCall'.op = "export" =>
        /\ timeRef' = timeRef
        /\ requestRef' = requestRef
        /\ rafPending' = rafPending
        /\ phase' = phase
        /\ Ran(lastCall') => ExportFrames(lastCall', timeRef) ]_vars

\* the part of C11 that every export satisfies, and the frames of the exports
\* that return (a value or null) instead of throwing
ExportKeepsAnimationWhenReturning ==
  [][ lastCall'.op = "export" =>
        /\ timeRef' = timeRef
        /\ requestRef' = requestRef
        /\ rafPending' = rafPending
        /\ phase' = phase
        /\ (Ran(lastCall') /\ lastCall'.m.outcome # "throw")
             => ExportFrames(lastCall', timeRef) ]_vars


\* a rational that is at least 1
RatAtLeastOne(a) == a[1] >= a[2]

\* C13: for every scaleFactor >= 1 and every device pixel ratio >= 1, the
\* image an export returns is at least as wide and as high as the live
\* canvas's drawing buffer, floor(clientSize * devicePixelRatio).
C13_ExportNotSmallerThanLive ==
  ( /\ IsExport
    /\ lastCall.m.outcome = "png"
    /\ RatAtLeastOne(lastCall.scaleFactor)
    /\ RatAtLeastOne(layout.dpr) ) =>
      /\ lastCall.m.image.width >= DisplaySize(lastCall.clientWidth, layout.dpr)
      /\ lastCall.m.image.height >= DisplaySize(lastCall.clientHeight, layout.dpr)



\* ============================================================ the export
\* flow of the application: the Export button of ControlPanel
\* (handleDownloadClick), App's handleDownload, and the snapshot overlay.

\* values of the blur slider (0..100): blur off, and the initial value
BlurValues == { 0, DefaultBlur }

\* The live layer's wrapper has class 'hidden' (display: none) while
\* snapshotUrl is set, and 'block' otherwise (part_001:80): the canvas inside
\* it is laid out at 0 x 0 when hidden, at the artboard's size when shown.
LayoutFor(url, l) ==
  IF url.kind = "null"
    THEN [ l EXCEPT !.clientWidth = MaxClient, !.clientHeight = MaxClient ]
    ELSE [ l EXCEPT !.clientWidth = 0, !.clientHeight = 0 ]

\* the data URL the compositor returned to call e: which surface it was
\* encoded from, the blur filter that surface was drawn with, and whether
\* the invocation was asked for a blur (blurRadius > 0)
SnapshotOf(e, m) ==
  [ kind |-> "png", by |-> e, from |-> m.from, filter |-> m.image.filter,
    blurBranch |-> m.blurBranch,
    width |-> m.image.width, height |-> m.image.height ]

\* a slot for a handleDownload call: one that is not in progress
Free(e) == downloads[e].pc = "idle"

InProgress(e) == ~Free(e)

\* (variant: the finally block leaves the overlay as it is)
FinallyKeepsSnapshot(url) == url

\* finally { setSnapshotUrl(null) }
Finally(url) == NoSnapshot

\* The state of the application once it is mounted: the shader component has
\* run its effects (WebGL set up, or not available) and the first animation
\* frame; nothing has been clicked.
InitApp ==
  /\ phase = "mounted"
  /\ canvasRef = TRUE
  /\ glRef \in BOOLEAN
  /\ programRef = glRef
  /\ layout = LayoutFor(NoSnapshot, [ clientWidth |-> 0, clientHeight |-> 0,
                                      dpr |-> << 3, 2 >> ])
  /\ canvas = IF glRef
                THEN [ width |-> DisplaySize(layout.clientWidth, layout.dpr),
                       height |-> DisplaySize(layout.clientHeight, layout.dpr) ]
                ELSE [ width |-> DefaultCanvasWidth, height |-> DefaultCanvasHeight ]
  /\ propsRef = [ colors |-> "p1", speed |-> 0 ]
  /\ timeRef = 0
  /\ requestRef = 2
  /\ rafPending = { 2 }
  /\ lastCall = NoCall
  /\ keepBuffers = FALSE
  /\ AppInit

\* what the export flow never changes
shaderRest == << phase, canvasRef, glRef, programRef, timeRef, requestRef,
                 rafPending, propsRef, keepBuffers >>

contentVars == << lang, mood, isGenerating, generations, service >>

\* The blur slider: setConfig({ ...config, blur: parseInt(e.target.value) })
SetBlur ==
  /\ \E b \in BlurValues : b # config.blur /\ config' = [ config EXCEPT !.blur = b ]
  /\ lastCall' = NoCall
  /\ UNCHANGED << shaderRest, contentVars, canvas, layout, snapshotUrl,
                  isDownloading, clickTimers, downloads >>

\* handleDownloadClick up to its await: the button is enabled only while
\* isDownloading is false.  The call keeps the onDownload of this render,
\* whose handleDownload closes over this render's config.
HandleDownloadClick ==
  /\ ~isDownloading
  /\ \E e \in DOMAIN downloads : Free(e)
  /\ isDownloading' = TRUE
  /\ clickTimers' = clickTimers \cup { [ blur |-> config.blur ] }
  /\ lastCall' = NoCall
  /\ UNCHANGED << shaderRest, contentVars, canvas, layout, snapshotUrl, config,
                  downloads >>

\* handleDownload from its start to its first await; m is what
\* getCanvasDataURL did.  captureRef.current and shaderRef.current are set
\* for as long as App is mounted.
\*   image     -> setSnapshotUrl(image), await the 100 ms timer
\*   null      -> await document.fonts.ready
\*   exception -> catch: alert; finally: setSnapshotUrl(null); the call ends
HandleDownloadStart(m) ==
  IF m.outcome = "png" THEN [ pc |-> "sleep", result |-> "png" ]
  ELSE IF m.outcome = "null" THEN [ pc |-> "fonts", result |-> "null" ]
  ELSE IdleDownload

SnapshotAfterStart(e, m) ==
  IF m.outcome = "png" THEN SnapshotOf(e, m)
  ELSE IF m.outcome = "null" THEN snapshotUrl
  ELSE Finally(snapshotUrl)

\* handleDownloadClick after its 100 ms timer: onDownload() is called and not
\* awaited, so it runs to its first await, and then setIsDownloading(false).
HandleDownloadClickResume ==
  \E c \in clickTimers, ctxOk \in CtxChoices :
    LET e == CHOOSE x \in DOMAIN downloads : Free(x)
        m == Summary(getCanvasDataURL(RatInt(ExportScale), RatInt(c.blur), ctxOk))
        url == SnapshotAfterStart(e, m)
    IN  /\ canvas' = m.canvas
        /\ snapshotUrl' = url
        /\ layout' = LayoutFor(url, layout)
        /\ downloads' = [ downloads EXCEPT ![e] = HandleDownloadStart(m) ]
        /\ isDownloading' = FALSE
        /\ clickTimers' = clickTimers \ { c }
        /\ lastCall' = [ op |-> "handleDownloadStart", e |-> e,
                         blur |-> c.blur, result |-> m.outcome,
                         hiddenAtCall |-> (snapshotUrl.kind # "null"),
                         ended |-> (m.outcome = "throw"),
                         alerted |-> (m.outcome = "throw"),
                         saved |-> FALSE ]
        /\ UNCHANGED << shaderRest, contentVars, config >>

\* the 100 ms timer of handleDownload fires
SnapshotTimerFires(e) ==
  /\ downloads[e].pc = "sleep"
  /\ downloads' = [ downloads EXCEPT ![e].pc = "fonts" ]
  /\ lastCall' = NoCall
  /\ UNCHANGED << shaderRest, contentVars, canvas, layout, snapshotUrl, config,
                  isDownloading, clickTimers >>

\* document.fonts.ready resolves; htmlToImage.toPng(captureRef.current) starts
FontsReady(e) ==
  /\ downloads[e].pc = "fonts"
  /\ downloads' = [ downloads EXCEPT ![e].pc = "toPng" ]
  /\ lastCall' = NoCall
  /\ UNCHANGED << shaderRest, contentVars, canvas, layout, snapshotUrl, config,
                  isDownloading, clickTimers >>

\* toPng settles: resolved -> the link is clicked; rejected -> catch: alert;
\* then finally: setSnapshotUrl(null); the call ends
ToPngSettles(e) ==
  /\ downloads[e].pc = "toPng"
  /\ \E ok \in BOOLEAN :
       lastCall' = [ op |-> "handleDownloadEnd", e |-> e,
                     result |-> downloads[e].result, ended |-> TRUE,
                     alerted |-> ~ok, saved |-> ok ]
  /\ downloads' = [ downloads EXCEPT ![e] = IdleDownload ]
  /\ snapshotUrl' = Finally(snapshotUrl)
  /\ layout' = LayoutFor(snapshotUrl', layout)
  /\ UNCHANGED << shaderRest, contentVars, canvas, config, isDownloading,
                  clickTimers >>

HandleDownloadStep ==
  \E e \in DOMAIN downloads : SnapshotTimerFires(e) \/ FontsReady(e) \/ ToPngSettles(e)

NextApp ==
  \/ SetBlur
  \/ HandleDownloadClick
  \/ HandleDownloadClickResume
  \/ HandleDownloadStep

SpecApp == InitApp /\ [][NextApp]_vars

\* What a handleDownload call awaits comes: its timer fires, and
\* document.fonts.ready and htmlToImage.toPng settle.
FairApp ==
  \A e \in 1..MaxExports :
    /\ WF_vars(SnapshotTimerFires(e))
    /\ WF_vars(FontsReady(e))
    /\ WF_vars(ToPngSettles(e))

SpecAppLive == SpecApp /\ FairApp



\* ------------------------------------------------ claims on the export flow
\* the snapshot overlay is displayed
Captured == snapshotUrl.kind = "png"

\* the displayed snapshot was drawn through the blur filter
BlurBakedIn == snapshotUrl.from = "final" /\ RatPos(snapshotUrl.filter)

\* a handleDownload call has just ended (after toPng, or in its first stretch)
DownloadEnded ==
  /\ lastCall.op \in { "handleDownloadStart", "handleDownloadEnd" }
  /\ lastCall.ended

\* C12: a handleDownload call to which the compositor returned null ends with
\* the user notified (the alert), never silently.
C12_NullResultIsNoticed ==
  (DownloadEnded /\ lastCall.result = "null") => lastCall.alerted

\* C14: the overlay is either absent (LIVE) or an image (CAPTURED); it becomes
\* or changes image only in the first stretch of a handleDownload call to
\* which the compositor returned that image; the step that ends a call leaves
\* it LIVE; and every call in progress ends, so the display returns to LIVE.
C14_LiveCapturedLive ==
  /\ [](snapshotUrl.kind \in { "null", "png" })
  /\ [][ (snapshotUrl' # snapshotUrl /\ snapshotUrl'.kind = "png") =>
           /\ lastCall'.op = "handleDownloadStart"
           /\ lastCall'.result = "png"
           /\ snapshotUrl'.by = lastCall'.e ]_vars
  /\ [][ (lastCall'.op \in { "handleDownloadStart", "handleDownloadEnd" }
          /\ lastCall'.ended) => snapshotUrl'.kind = "null" ]_vars
  /\ \A e \in 1..MaxExports :
       InProgress(e) ~> (Free(e) /\ DownloadEnded /\ ~Captured)

\* a call that set the overlay has ended after toPng and the display is LIVE
C14_Witness ==
  /\ lastCall.op = "handleDownloadEnd"
  /\ lastCall.result = "png"
  /\ ~Captured

\* C15: whenever the overlay is displayed and config.blur > 0, the displayed
\* snapshot was drawn through the blur filter.
C15_SnapshotHasBlur == (Captured /\ config.blur > 0) => BlurBakedIn

\* the two ways C15 can fail, apart: a snapshot taken with a blur requested
\* is drawn through the filter; a snapshot displayed while config.blur > 0
\* was taken with a blur requested
RequestedBlurIsBaked == (Captured /\ snapshotUrl.blurBranch) => BlurBakedIn

DisplayedBlurWasRequested == (Captured /\ config.blur > 0) => snapshotUrl.blurBranch

\* C16: while a handleDownload call started from the button is in progress,
\* isDownloading is true (the button is disabled).
C16_ButtonDisabledDuringExport ==
  (\E e \in DOMAIN downloads : InProgress(e)) => isDownloading

\* C17: the overlay set by a call stays displayed, as that call's image,
\* until the call's toPng has completed, and no call invokes the compositor
\* while the live layer is hidden by a snapshot.
C17_OverlayHeldUntilCaptured ==
  /\ \A e \in DOMAIN downloads :
       (InProgress(e) /\ downloads[e].result = "png") =>
         (Captured /\ snapshotUrl.by = e)
  /\ lastCall.op = "handleDownloadStart" => ~lastCall.hiddenAtCall



\* ==================================================== the content service
\* generateCreativeContent and the ControlPanel handlers around it.

Languages == { "en", "zh" }

\* the theme input: empty, blank, or a theme
Moods == { "", " ", "sea" }

\* (variant: the theme is tested without trimming)
TrimNothing(m) == m

\* mood.trim()
Trim(m) == IF m = " " THEN "" ELSE m

\* The assistant's raw response is a string, modelled as a sequence of
\* tokens: the braces, the letter s, other text such as a code fence (x), and
\* the body of a JSON object: "good" is "title":..,"subtitle":..,"colors":[5
\* colors], "short" is the same with 3 colors.
RawTokens == { "{", "}", "s", "x", "good", "short" }

AllRaw == UNION { [ 1..n -> RawTokens ] : n \in 0..MaxRawLen }

\* raw responses the palette is exercised with
SampleRaw ==
  { << >>, << "x" >>, << "{", "}" >>, << "{", "good", "}" >>,
    << "{", "short", "}" >>, << "x", "{", "good", "}" >> }

\* A JavaScript value read as GeneratedContent: title and subtitle ("" when
\* absent), colors (the elements, when it is an array) and Array.isArray.
EmptyObject == [ title |-> "", subtitle |-> "", colors |-> << >>, isArray |-> FALSE ]

ObjectOf(body) ==
  [ title |-> "Generated Title", subtitle |-> "generated subtitle",
    colors |-> IF body = "good" THEN << "#g1", "#g2", "#g3", "#g4", "#g5" >>
               ELSE << "#g1", "#g2", "#g3" >>,
    isArray |-> TRUE ]

\* JSON.parse(text): the value, or an exception.  The only JSON texts of the
\* token language are {} and { body }.
JSONParse(text) ==
  IF text = << "{", "}" >> THEN [ ok |-> TRUE, value |-> EmptyObject ]
  ELSE IF Len(text) = 3 /\ text[1] = "{" /\ text[3] = "}"
          /\ text[2] \in { "good", "short" }
    THEN [ ok |-> TRUE, value |-> ObjectOf(text[2]) ]
    ELSE [ ok |-> FALSE, value |-> EmptyObject ]

\* The character class of /\{[\\s\\S]*\}/: in a regex literal \\ is an
\* escaped backslash, so the class holds the backslash, s and S.
InClass(t) == t = "s"

\* where a match starting at i ends: the characters after the brace are
\* consumed while they are in the class, and the next one must be }
MatchEnd(raw, i) ==
  IF raw[i] # "{" THEN 0
  ELSE LET rest == { j \in (i + 1)..Len(raw) : ~InClass(raw[j]) }
       IN  IF rest = {} THEN 0
           ELSE LET j == CHOOSE k \in rest : \A l \in rest : k <= l
                IN  IF raw[j] = "}" THEN j ELSE 0

\* raw.match(/\{[\\s\\S]*\}/): the leftmost match, or null
RegexMatch(raw) ==
  LET starts == { i \in 1..Len(raw) : MatchEnd(raw, i) > 0 }
  IN  IF starts = {} THEN [ found |-> FALSE, text |-> << >> ]
      ELSE LET i == CHOOSE k \in starts : \A l \in starts : k <= l
           IN  [ found |-> TRUE, text |-> SubSeq(raw, i, MatchEnd(raw, i)) ]

\* the texts of the catch blocks; the zh ones stand for the Chinese strings
ErrorTitle(l) == IF l = "zh" THEN "zh:ShengChengCuoWu" ELSE "Error Generating"

ErrorSubtitle(l) ==
  IF l = "zh" THEN "zh:QingJianChaAPIKeyHuoChongShi"
  ELSE "Please check your API key or try again."

ErrorContent(l) ==
  [ title |-> ErrorTitle(l), subtitle |-> ErrorSubtitle(l),
    colors |-> << "#ff0000", "#00ff00", "#0000ff", "#ffff00", "#00ffff" >>,
    isArray |-> TRUE ]

\* What the remote call gives: no API key configured, fetch rejects, a
\* non-OK status, a body that is not JSON, or a body whose message content
\* is raw (the empty string included).
ResponsesOver(raws) ==
  { [ kind |-> k, raw |-> << >> ] :
      k \in { "noKey", "networkError", "httpError", "badBody" } }
    \cup { [ kind |-> "content", raw |-> r ] : r \in raws }

\* if (!parsed || !parsed.title || !parsed.subtitle ||
\*     !Array.isArray(parsed.colors) || parsed.colors.length !== 5) throw
ValidShape(v) ==
  /\ v.title # ""
  /\ v.subtitle # ""
  /\ v.isArray
  /\ Len(v.colors) = PaletteSize

Resolved(v) == [ settled |-> "resolved", value |-> v ]

\* the implementation of src/unnamed/part_001 (GRS AI endpoint)
GenerateGrsai(resp, l) ==
  IF resp.kind # "content" \/ resp.raw = << >>
    THEN Resolved(ErrorContent(l))
    ELSE LET whole == JSONParse(resp.raw)
             m == RegexMatch(resp.raw)
             parsed == IF whole.ok THEN whole
                       ELSE IF m.found THEN JSONParse(m.text)
                       ELSE [ ok |-> FALSE, value |-> EmptyObject ]
         IN  IF parsed.ok /\ ValidShape(parsed.value)
               THEN Resolved(parsed.value)
               ELSE Resolved(ErrorContent(l))

\* the implementation of src/services/gemini.ts (Google GenAI client): no
\* language parameter, no extraction and no validation of the parsed data
GenerateGenai(resp) ==
  IF resp.kind # "content" \/ resp.raw = << >>
    THEN Resolved(ErrorContent("en"))
    ELSE LET data == JSONParse(resp.raw)
         IN  IF data.ok THEN Resolved(data.value)
             ELSE Resolved(ErrorContent("en"))

\* generateCreativeContent(mood, lang) of the implementation the build links
generateCreativeContent(impl, resp, l) ==
  IF impl = "grsai" THEN GenerateGrsai(resp, l) ELSE GenerateGenai(resp)

exportVars == << snapshotUrl, isDownloading, clickTimers, downloads >>

shaderVars == << phase, canvasRef, glRef, programRef, canvas, layout, timeRef,
                 requestRef, rafPending, propsRef, keepBuffers >>

\* the theme input's onChange
SetMood ==
  /\ \E m \in Moods : m # mood /\ mood' = m
  /\ lastCall' = NoCall
  /\ UNCHANGED << shaderVars, exportVars, config, lang, isGenerating,
                  generations, service >>

\* the language button: setLang(lang === 'en' ? 'zh' : 'en')
SetLang ==
  /\ lang' = IF lang = "en" THEN "zh" ELSE "en"
  /\ lastCall' = NoCall
  /\ UNCHANGED << shaderVars, exportVars, config, mood, isGenerating,
                  generations, service >>

\* handleGenerate up to its await; the button is disabled={isGenerating || !mood}
HandleGenerate ==
  /\ ~isGenerating
  /\ mood # ""
  /\ IF Trim(mood) = ""
       THEN UNCHANGED << isGenerating, generations >>
       ELSE /\ isGenerating' = TRUE
            /\ generations' = generations \cup { [ mood |-> mood, lang |-> lang ] }
  /\ lastCall' = [ op |-> "handleGenerate", started |-> (Trim(mood) # "") ]
  /\ UNCHANGED << shaderVars, exportVars, config, lang, mood, service >>

\* (variant: the result is merged into the initial configuration)
ApplyResultToDefaults(prev, v) ==
  [ DefaultConfig EXCEPT !.title = v.title, !.subtitle = v.subtitle,
                         !.colors = v.colors ]

\* prev => ({ ...prev, title: result.title, subtitle: result.subtitle,
\*            colors: result.colors })
ApplyResult(prev, v) ==
  [ prev EXCEPT !.title = v.title, !.subtitle = v.subtitle, !.colors = v.colors ]

\* handleGenerate after its await: the service answered one of the given
\* responses; setConfig with the updater, then setIsGenerating(false).  The
\* history also keeps which handler ran just before.
GenerateSettles(responses) ==
  \E g \in generations, resp \in responses :
    LET result == generateCreativeContent(service, resp, g.lang)
    IN  /\ config' = ApplyResult(config, result.value)
        /\ isGenerating' = FALSE
        /\ generations' = generations \ { g }
        /\ lastCall' = [ op |-> "generate", lang |-> g.lang, resp |-> resp,
                         result |-> result, after |-> lastCall.op ]
        /\ UNCHANGED << shaderVars, exportVars, lang, mood, service >>

\* handleColorChange(index, value) from the color input rendered for an
\* entry of config.colors (index is 0-based in the code)
HandleColorChange ==
  /\ \E index \in 1..Len(config.colors) :
       config' = [ config EXCEPT !.colors[index] = "#picked" ]
  /\ config' # config
  /\ lastCall' = [ op |-> "handleColorChange" ]
  /\ UNCHANGED << shaderVars, exportVars, lang, mood, isGenerating,
                  generations, service >>

\* The fields of the configuration that a generation does not produce, with
\* the values the controls are exercised with: the initial one and another.
OtherFields ==
  [ speed : { 5, 0 }, grain : { 15, 50 }, blur : BlurValues,
    scale : { 10, 30 }, fontFamily : { "Inter", "Oswald" } ]

\* a slider or the font select: setConfig({ ...config, [field]: value })
EditField ==
  /\ \E f \in DOMAIN DefaultConfig \ { "title", "subtitle", "colors" } :
       \E o \in OtherFields :
         /\ o[f] # config[f]
         /\ config' = [ config EXCEPT ![f] = o[f] ]
         /\ lastCall' = [ op |-> "editField", field |-> f ]
  /\ UNCHANGED << shaderVars, exportVars, lang, mood, isGenerating,
                  generations, service >>

\* The service as a function: a call is pending for either language, with
\* either implementation, and settles with any response.
InitService ==
  /\ phase = "mounted"
  /\ canvasRef = TRUE
  /\ glRef = TRUE
  /\ programRef = TRUE
  /\ layout = LayoutFor(NoSnapshot, [ clientWidth |-> 0, clientHeight |-> 0,
                                      dpr |-> << 3, 2 >> ])
  /\ canvas = [ width |-> DisplaySize(layout.clientWidth, layout.dpr),
                height |-> DisplaySize(layout.clientHeight, layout.dpr) ]
  /\ propsRef = [ colors |-> "p1", speed |-> 0 ]
  /\ timeRef = 0
  /\ requestRef = 2
  /\ rafPending = { 2 }
  /\ keepBuffers = FALSE
  /\ config = DefaultConfig
  /\ snapshotUrl = NoSnapshot
  /\ lang \in Languages
  /\ mood = "sea"
  /\ isGenerating = TRUE
  /\ isDownloading = FALSE
  /\ clickTimers = {}
  /\ downloads = [ e \in 1..MaxExports |-> IdleDownload ]
  /\ generations = { [ mood |-> mood, lang |-> lang ] }
  /\ service \in Services
  /\ lastCall = [ op |-> "handleGenerate", started |-> TRUE ]

GenerateSettlesAny == GenerateSettles(ResponsesOver(AllRaw))

SpecService == InitService /\ [][GenerateSettlesAny]_vars

\* The palette: the mounted application with either implementation linked;
\* the user types themes, switches language, generates and edits colors.
InitPalette ==
  /\ phase = "mounted"
  /\ canvasRef = TRUE
  /\ glRef = TRUE
  /\ programRef = TRUE
  /\ layout = LayoutFor(NoSnapshot, [ clientWidth |-> 0, clientHeight |-> 0,
                                      dpr |-> << 3, 2 >> ])
  /\ canvas = [ width |-> DisplaySize(layout.clientWidth, layout.dpr),
                height |-> DisplaySize(layout.clientHeight, layout.dpr) ]
  /\ propsRef = [ colors |-> "p1", speed |-> 0 ]
  /\ timeRef = 0
  /\ requestRef = 2
  /\ rafPending = { 2 }
  /\ lastCall = NoCall
  /\ keepBuffers = FALSE
  /\ AppInitWith(Services)

GenerateSettlesSample == GenerateSettles(ResponsesOver(SampleRaw))

NextPalette ==
  \/ SetMood
  \/ SetLang
  \/ HandleGenerate
  \/ GenerateSettlesSample
  \/ HandleColorChange

SpecPalette == InitPalette /\ [][NextPalette]_vars



\* --------------------------------------------- claims on the content service
\* the last step was a settled call of generateCreativeContent
IsGenerate == lastCall.op = "generate"

\* the language a title or subtitle is written in
LanguageOf(text) ==
  IF text \in { ErrorTitle("zh"), ErrorSubtitle("zh") } THEN "zh" ELSE "en"

\* a valid JSON object is a part of the text
EmbedsObject(raw) ==
  \E i \in 1..Len(raw), j \in 1..Len(raw) : i <= j /\ JSONParse(SubSeq(raw, i, j)).ok

\* the failures C18 lists: no API key, network error, non-OK status (or a
\* body that is not JSON), empty content, text holding no JSON object, and a
\* JSON object of the wrong shape
IsFailure(resp) ==
  \/ resp.kind # "content"
  \/ resp.raw = << >>
  \/ ~EmbedsObject(resp.raw)
  \/ JSONParse(resp.raw).ok /\ ~ValidShape(JSONParse(resp.raw).value)

\* the value is the fixed fallback content, in language l, with five colors
IsFallbackIn(v, l) ==
  /\ v = ErrorContent(l)
  /\ LanguageOf(v.title) = l
  /\ LanguageOf(v.subtitle) = l
  /\ Len(v.colors) = 5

\* C18: generateCreativeContent always resolves, and for every failure it
\* resolves to the fixed fallback content, with title and subtitle in the
\* requested language and exactly 5 colors.
C18_FallbackOnEveryFailure ==
  IsGenerate =>
    /\ lastCall.result.settled = "resolved"
    /\ IsFailure(lastCall.resp) => IsFallbackIn(lastCall.result.value, lastCall.lang)

\* C18 for the implementation of src/unnamed/part_001 alone
FallbackOnEveryFailureGrsai == (service = "grsai") => C18_FallbackOnEveryFailure

\* the raw response is one valid, complete JSON object between other text
\* (code fences), and is not itself valid JSON
IsFencedObject(raw) ==
  /\ ~JSONParse(raw).ok
  /\ \E i \in 1..Len(raw) :
       /\ i + 2 <= Len(raw)
       /\ SubSeq(raw, i, i + 2) = << "{", "good", "}" >>
       /\ \A k \in (1..Len(raw)) \ (i..(i + 2)) : raw[k] = "x"

\* C19: when the raw response is not valid JSON but holds a valid object with
\* title, subtitle and 5 colors inside surrounding text, the call (of the
\* implementation that extracts, src/unnamed/part_001) returns that object,
\* not the fallback.
C19_ExtractsEmbeddedObject ==
  ( /\ IsGenerate
    /\ service = "grsai"
    /\ lastCall.resp.kind = "content"
    /\ IsFencedObject(lastCall.resp.raw) )
    => lastCall.result.value = ObjectOf("good")

\* C20: config.colors always has exactly five entries.
C20_PaletteHasFiveColors == Len(config.colors) = PaletteSize

\* C20 for the implementation of src/unnamed/part_001 alone
PaletteHasFiveColorsGrsai == (service = "grsai") => C20_PaletteHasFiveColors



\* ------------------------------------------------- generation and editing
\* The mounted application with either implementation linked: the user types
\* themes, generates, and moves the sliders and the font select meanwhile.
NextGenerate ==
  \/ SetMood
  \/ EditField
  \/ HandleGenerate
  \/ GenerateSettlesSample

SpecGenerate == InitPalette /\ [][NextGenerate]_vars

\* the fields a generation result does not carry
KeptFields == { "speed", "grain", "blur", "scale", "fontFamily" }

\* C21: the step that applies a generation result replaces title, subtitle
\* and colors by the result's and leaves every other field of the
\* configuration at the value it had just before, whatever was edited while
\* the request was in flight.
C21_GenerationKeepsOtherFields ==
  [][ lastCall'.op = "generate" =>
        /\ config'.title = lastCall'.result.value.title
        /\ config'.subtitle = lastCall'.result.value.subtitle
        /\ config'.colors = lastCall'.result.value.colors
        /\ DOMAIN config' = DOMAIN config
        /\ \A f \in KeptFields : config'[f] = config[f] ]_vars

\* a result was applied right after a field was edited (so the edit was
\* made while the request was in flight), and the edited values are kept
C21_Witness ==
  /\ lastCall.op = "generate"
  /\ lastCall.after = "editField"
  /\ config.title = lastCall.result.value.title
  /\ config.blur # DefaultConfig.blur
  /\ config.speed # DefaultConfig.speed

\* The awaited promise of generateCreativeContent settles: both
\* implementations wrap the whole request in try/catch and return a value.
SpecGenerateLive == SpecGenerate /\ WF_vars(GenerateSettlesSample)

\* the themes that consist of white space only
WhitespaceOnly == { "", " " }

\* a request is in flight exactly while isGenerating, and there is at most one
OneInFlight ==
  /\ Cardinality(generations) <= 1
  /\ isGenerating <=> generations # {}

\* a request starts only in handleGenerate, with the button enabled
\* (isGenerating false) and a theme that is not blank
StartsOnlyWhenIdle ==
  [][ generations' \ generations # {} =>
        /\ lastCall'.op = "handleGenerate"
        /\ lastCall'.started
        /\ ~isGenerating
        /\ mood \notin WhitespaceOnly ]_vars

\* handleGenerate with a blank theme starts nothing and changes no state
BlankMoodIsNoOp ==
  [][ lastCall'.op = "handleGenerate" /\ mood \in WhitespaceOnly =>
        /\ ~lastCall'.started
        /\ UNCHANGED << config, mood, lang, isGenerating, generations,
                        exportVars, shaderVars >> ]_vars

\* isGenerating goes back to false only when the result is applied
EndsOnlyWhenApplied ==
  [][ isGenerating /\ ~isGenerating' => lastCall'.op = "generate" ]_vars

\* C22: at most one generation request is in flight; isGenerating is true
\* exactly from the start of a request until its result has been applied;
\* no request starts while it is true (the button is disabled); a blank theme
\* starts no request and changes no state; and every started request
\* eventually sets isGenerating back to false.
C22_OneGenerationAtATime ==
  /\ []OneInFlight
  /\ StartsOnlyWhenIdle
  /\ BlankMoodIsNoOp
  /\ EndsOnlyWhenApplied
  /\ (isGenerating ~> ~isGenerating)

\* a started request has had its result applied and isGenerating is false
\* again, with nothing left in flight
C22_Witness ==
  /\ lastCall.op = "generate"
  /\ ~isGenerating
  /\ generations = {}
  /\ mood \notin WhitespaceOnly

\* handleGenerate ran with a blank theme and started nothing
BlankMoodClicked ==
  /\ lastCall.op = "handleGenerate"
  /\ ~lastCall.started
  /\ mood = " "


\* ------------------------------------------------ claims on the frame loop
\* floor(client * dpr) with dpr defaulting to 1, from the layout alone
ExpectedDisplay(client, dpr) ==
  IF dpr[1] > 0 THEN (client * dpr[1]) \div dpr[2] ELSE client

\* the live canvas has the dimensions of the given layout
SizedFor(c, l) ==
  /\ c.width = ExpectedDisplay(l.clientWidth, l.dpr)
  /\ c.height = ExpectedDisplay(l.clientHeight, l.dpr)

\* an animation frame that ran with the renderer initialized leaves the
\* canvas at the display size and draws one frame at those dimensions
FrameSizesCanvas ==
  [][ (lastCall'.op = "animate" /\ lastCall'.live) =>
        /\ SizedFor(canvas', layout)
        /\ Len(lastCall'.renders) = 1
        /\ lastCall'.renders[1].width = canvas'.width
        /\ lastCall'.renders[1].height = canvas'.height ]_vars

\* C23: an animation frame that runs with the renderer initialized leaves
\* the canvas floor(clientWidth * dpr) wide and floor(clientHeight * dpr)
\* high and renders at those dimensions; and no step other than a change of
\* the display size or dpr takes the canvas away from those dimensions, so
\* that the next frame starts with them.
C23_CanvasMatchesDisplay ==
  [][ /\ (lastCall'.op = "animate" /\ lastCall'.live) =>
           /\ SizedFor(canvas', layout)
           /\ Len(lastCall'.renders) = 1
           /\ lastCall'.renders[1].width = canvas'.width
           /\ lastCall'.renders[1].height = canvas'.height
      /\ (SizedFor(canvas, layout) /\ layout' = layout) =>
           SizedFor(canvas', layout') ]_vars

\* the canvas keeps the display dimensions over every step that is neither a
\* change of layout nor an export that ends by an exception
SizeKeptWhenReturning ==
  [][ ( /\ SizedFor(canvas, layout)
        /\ layout' = layout
        /\ ~(lastCall'.op = "export" /\ lastCall'.m.outcome = "throw") ) =>
        SizedFor(canvas', layout') ]_vars

\* a frame sized the canvas, and an export that returned left it so
SizeKeptByExport ==
  /\ IsExport
  /\ lastCall.m.outcome # "throw"
  /\ Ran(lastCall)
  /\ SizedFor(canvas, layout)
  /\ requestRef >= 2

\* the last step was an animation frame run with the renderer initialized
LiveFrame == lastCall.op = "animate" /\ lastCall.live

TimeKeptByExport == IsExport /\ timeRef > 0

\* C25: while the component is mounted exactly one animation-frame request
\* is pending, the one whose handle is in requestRef; every run of the
\* callback, initialized or not, consumes its request and queues a new one;
\* and once the component has unmounted no request is pending, so no
\* callback runs, renders or advances the time again.
C25_OneRequestWhileMounted ==
  /\ [](phase = "mounted" => (rafPending = { requestRef } /\ requestRef > 0))
  /\ [](phase = "unmounted" => rafPending = {})
  /\ [][ lastCall'.op = "animate" =>
           /\ requestRef' # requestRef
           /\ requestRef \notin rafPending'
           /\ Cardinality(rafPending') = 1 ]_vars
  /\ [][ phase = "unmounted" =>
           /\ lastCall'.op # "animate"
           /\ timeRef' = timeRef
           /\ rafPending' = {} ]_vars

\* the component unmounted after the loop had run a frame and re-scheduled
\* itself, and nothing is pending
C25_Witness ==
  /\ phase = "unmounted"
  /\ requestRef >= 2
  /\ rafPending = {}

\* a frame that ran without the renderer re-scheduled itself
UninitializedFrameRescheduled ==
  /\ lastCall.op = "animate"
  /\ ~lastCall.live
  /\ rafPending = { requestRef }

=============================================================================
